---- MODULE Spec2Model ----
(***************************************************************************)
(* Model of the OAuth hand-off of backend-locafy: the in-memory temporary  *)
(* exchange token store (src/src/services/auth/temp-token.ts) and the      *)
(* exchange endpoint that redeems tokens (src/src/routes/auth-routes.ts).  *)
(*                                                                         *)
(* Node runs every handler and timer callback to completion on one thread, *)
(* so each synchronous function is one atomic action.  Time is the value   *)
(* of Date.now() in milliseconds; it advances between callbacks.           *)
(***************************************************************************)
EXTENDS Integers, FiniteSets, Sequences, TLC

VARIABLES
    now,             \* Date.now()
    tempTokenStore,  \* Map token -> {data, expiresAt}
    consumedTokens,  \* Map token -> {data, consumedAt}
    timers,          \* callbacks registered with setTimeout and not yet run
    used,            \* token strings crypto.randomBytes has produced so far
    issued,          \* history: token -> {data, expiresAt} of its issuance
    lost,            \* history: tokens issued before the last restart
    grantedAt,       \* history: token -> time of its first pending-path redemption
    grants,          \* history: token -> number of pending-path redemptions
    requests,        \* exchange requests received and not yet handled
    last,            \* the answer of the exchange endpoint to the request handled last
                     \* (turn alternates, so that two answers in a row differ)
    redirect,        \* the redirect the OAuth callback sent last
    users,           \* the user table: id -> {emailVerified}
    everUser,        \* ids the user table has generated so far
    reqs,            \* requests to the community endpoints: their req/res objects
    businesses,      \* the Business table: row id is the row's position
    verifications,   \* the Verification table: row id is the row's position
    calls            \* executions of the business and admin handlers

vars == <<now, tempTokenStore, consumedTokens, timers, used, issued, lost,
          grantedAt, grants, requests, last, redirect, users, everUser, reqs,
          businesses, verifications, calls>>

(* The variables of the token store and those of the gated endpoints *)
gateVars == <<users, everUser, reqs>>
tokenVars == <<now, tempTokenStore, consumedTokens, timers, used, issued, lost,
               grantedAt, grants, requests, last>>
(* The variables of the business listings and their verification *)
bizVars == <<businesses, verifications, calls>>

----------------------------------------------------------------------------
(* Program constants *)

CONSUMED_TOKEN_RETENTION == 60 * 1000
TOKEN_EXPIRY == 15 * 60 * 1000

(* Bounds of the model *)

TickMs == 30000      \* granularity of the clock steps
EarlyTicks == 2      \* clock steps observed right after time 0
LateTicks == 2       \* clock steps observed after time TOKEN_EXPIRY
(* The instants at which the clock is observed: a few steps from 0, then   *)
(* the steps around TOKEN_EXPIRY.                                          *)
Instants ==
    {j * TickMs : j \in 0..EarlyTicks}
        \cup {TOKEN_EXPIRY + j * TickMs : j \in (0 - 1)..LateTicks}
MaxTime == TOKEN_EXPIRY + LateTicks * TickMs

Tokens == {"t1", "t2"}           \* values of randomBytes(32).toString('hex')
Bogus == "bogus"                 \* a string that is never generated
Codes == Tokens \cup {Bogus}
Payloads == {"p1", "p2"}         \* session bundles (truthy objects)
Clients == {"c1", "c2"}
Null == "null"
None == [none |-> TRUE]
UserIds == {"u1", "u2"}          \* values of User.id
Reqs == {"r1", "r2"}             \* requests observed in one behaviour
Calls == {"c1", "c2"}            \* handler executions that can be in flight together

----------------------------------------------------------------------------
(* Map<string, V> helpers *)

MapHas(m, k) == k \in DOMAIN m
MapSet_Clobber(m, k, v) == [x \in (DOMAIN m) \cup {k} |-> v]
MapSet(m, k, v) == [x \in (DOMAIN m) \cup {k} |-> IF x = k THEN v ELSE m[x]]
MapDelete(m, k) == [x \in (DOMAIN m) \ {k} |-> m[x]]
EmptyMap == [x \in {} |-> None]

Min(a, b) == IF a < b THEN a ELSE b

----------------------------------------------------------------------------
Init ==
    /\ now = 0
    /\ tempTokenStore = EmptyMap
    /\ consumedTokens = EmptyMap
    /\ timers = {}
    /\ used = {}
    /\ issued = EmptyMap
    /\ lost = {}
    /\ grantedAt = EmptyMap
    /\ grants = [t \in Tokens |-> 0]
    /\ requests = [c \in Clients |-> None]
    /\ last = None
    /\ redirect = None
    /\ users = EmptyMap
    /\ everUser = {}
    /\ reqs = [r \in Reqs |->
                 [pc |-> "new", cred |-> None, route |-> None,
                  chain |-> <<>>, idx |-> 0,
                  user |-> None, found |-> None, sent |-> 0, status |-> 0,
                  message |-> "none", nexts |-> 0, lookups |-> 0,
                  thrown |-> FALSE, escaped |-> FALSE, trace |-> <<>>]]
    /\ businesses = <<>>
    /\ verifications = <<>>
    /\ calls = [c \in Calls |->
                  [op |-> "none", pc |-> "idle", userId |-> "null",
                   userRole |-> "undefined", id |-> 0, status |-> 0]]

(* The expiry check of exchangeTempToken: Date.now() > stored.expiresAt *)
IsExpired_Never(t, expiresAt) == FALSE
IsExpired(t, expiresAt) == t > expiresAt

(* The grace check: timeSinceConsumed < CONSUMED_TOKEN_RETENTION *)
InRetention_Inclusive(t, consumedAt) == t - consumedAt <= CONSUMED_TOKEN_RETENTION
InRetention_Reversed(t, consumedAt) == t - consumedAt > CONSUMED_TOKEN_RETENTION
InRetention(t, consumedAt) == t - consumedAt < CONSUMED_TOKEN_RETENTION

(* What a call of exchangeTempToken leaves behind: the returned data, the  *)
(* branch taken, both maps and the timer queue.                            *)
Outcome(data, path, store, consumed, tms) ==
    [data |-> data, path |-> path, store |-> store, consumed |-> consumed,
     timers |-> tms]

(* Branch: the token is in neither map -> return null *)
NotFound_Similar(token) ==
    IF DOMAIN tempTokenStore = {}
    THEN Outcome(Null, "missing", tempTokenStore, consumedTokens, timers)
    ELSE LET k == CHOOSE x \in DOMAIN tempTokenStore : TRUE
         IN Outcome(tempTokenStore[k].data, "missing",
                    MapDelete(tempTokenStore, k), consumedTokens, timers)
NotFound(token) ==
    Outcome(Null, "missing", tempTokenStore, consumedTokens, timers)

(* Branch: recently consumed -> return consumed.data *)
ServeConsumed_Null(token) ==
    Outcome(Null, "consumed", tempTokenStore, consumedTokens, timers)
ServeConsumed(token) ==
    Outcome(consumedTokens[token].data, "consumed", tempTokenStore,
            consumedTokens, timers)

(* Branch: consumed longer ago than the retention -> delete it, return null *)
DropStale(token) ==
    Outcome(Null, "stale", tempTokenStore, MapDelete(consumedTokens, token), timers)

(* Branch: pending but expired -> delete it, return null *)
DropExpired_Keep(token) ==
    Outcome(Null, "expired", tempTokenStore, consumedTokens, timers)
DropExpired(token) ==
    Outcome(Null, "expired", MapDelete(tempTokenStore, token), consumedTokens,
            timers)

(* Branch: pending and valid -> copy to consumedTokens, schedule its purge, *)
(* delete from tempTokenStore, return stored.data                          *)
ConsumePending_Keep(token) ==
    Outcome(tempTokenStore[token].data, "pending",
            tempTokenStore,
            MapSet(consumedTokens, token,
                   [data |-> tempTokenStore[token].data, consumedAt |-> now]),
            timers \cup {[kind |-> "purge", token |-> token,
                          due |-> now + CONSUMED_TOKEN_RETENTION]})
ConsumePending_NoTimer(token) ==
    Outcome(tempTokenStore[token].data, "pending",
            MapDelete(tempTokenStore, token),
            MapSet(consumedTokens, token,
                   [data |-> tempTokenStore[token].data, consumedAt |-> now]),
            timers)
ConsumePending(token) ==
    Outcome(tempTokenStore[token].data, "pending",
            MapDelete(tempTokenStore, token),
            MapSet(consumedTokens, token,
                   [data |-> tempTokenStore[token].data, consumedAt |-> now]),
            timers \cup {[kind |-> "purge", token |-> token,
                          due |-> now + CONSUMED_TOKEN_RETENTION]})

(* exchangeTempToken(token) *)
exchangeTempToken(token) ==
    IF ~MapHas(tempTokenStore, token)
    THEN IF MapHas(consumedTokens, token)
         THEN IF InRetention(now, consumedTokens[token].consumedAt)
              THEN ServeConsumed(token)
              ELSE DropStale(token)
         ELSE NotFound(token)
    ELSE IF IsExpired(now, tempTokenStore[token].expiresAt)
         THEN DropExpired(token)
         ELSE ConsumePending(token)

(* getTempTokenStoreSize() *)
getTempTokenStoreSize(store) == Cardinality(DOMAIN store)

(* crypto.randomBytes(32).toString('hex'): a string not produced before;  *)
(* the strings are interchangeable, the first unused one is taken.         *)
NextToken == IF "t1" \notin used THEN "t1" ELSE "t2"

(* generateTempToken(data) *)
GenerateTempToken(data) ==
    /\ now + TOKEN_EXPIRY + CONSUMED_TOKEN_RETENTION <= MaxTime
    /\ used # Tokens
    /\ LET token == NextToken IN
        /\ used' = used \cup {token}
        /\ tempTokenStore' = MapSet(tempTokenStore, token,
                                    [data |-> data, expiresAt |-> now + TOKEN_EXPIRY])
        /\ timers' = timers \cup {[kind |-> "expiry", token |-> token,
                                   due |-> now + TOKEN_EXPIRY]}
        /\ issued' = MapSet(issued, token,
                            [data |-> data, expiresAt |-> now + TOKEN_EXPIRY])
    /\ UNCHANGED <<now, consumedTokens, lost, grantedAt, grants, requests, last>>

(* generateTempToken called for a completed login, the redirect that      *)
(* carries the token left aside                                            *)
IssueToken(data) ==
    /\ GenerateTempToken(data)
    /\ UNCHANGED <<redirect, users, everUser, reqs, bizVars>>

(* Whether the token is PENDING and unexpired at this instant *)
IsFresh(code) ==
    /\ MapHas(tempTokenStore, code)
    /\ ~IsExpired(now, tempTokenStore[code].expiresAt)

(* A client sends GET /v1/oauth/exchange?code=...; the request waits for  *)
(* the event loop.                                                         *)
ExchangeRequest(c, code) ==
    /\ requests[c] = None
    /\ requests' = [requests EXCEPT ![c] = [code |-> code, fresh |-> IsFresh(code)]]
    /\ UNCHANGED <<now, tempTokenStore, consumedTokens, timers, used, issued, lost,
                   grantedAt, grants, last>>
    /\ UNCHANGED <<redirect, users, everUser, reqs, bizVars>>

(* JavaScript truthiness of the value exchangeTempToken returned *)
IsFalsy_Never(data) == FALSE
IsFalsy(data) == data = Null

(* The body of the handler of GET /v1/oauth/exchange for a string code:    *)
(* one synchronous call of exchangeTempToken, then the JSON answer.        *)
HandleExchange(code, fresh) ==
    LET r == exchangeTempToken(code)
    IN /\ tempTokenStore' = r.store
       /\ consumedTokens' = r.consumed
       /\ timers' = r.timers
       /\ last' = [code |-> code, fresh |-> fresh, at |-> now, data |-> r.data,
                   path |-> r.path,
                   status |-> IF IsFalsy(r.data) THEN 400 ELSE 200,
                   message |-> IF ~IsFalsy(r.data) THEN "none"
                               ELSE IF getTempTokenStoreSize(r.store) = 0
                                    THEN "restarted" ELSE "invalid",
                   turn |-> IF last = None THEN 0 ELSE 1 - last.turn]
       /\ grantedAt' = IF r.path = "pending" /\ ~MapHas(grantedAt, code)
                       THEN MapSet(grantedAt, code, now) ELSE grantedAt
       /\ grants' = IF r.path = "pending" /\ code \in Tokens
                    THEN [grants EXCEPT ![code] = Min(@ + 1, 2)] ELSE grants
       /\ UNCHANGED <<now, used, issued, lost>>

(* The handler runs for the waiting request of client c *)
OAuthExchange(c) ==
    /\ requests[c] # None
    /\ HandleExchange(requests[c].code, requests[c].fresh)
    /\ requests' = [requests EXCEPT ![c] = None]
    /\ UNCHANGED <<redirect, users, everUser, reqs, bizVars>>

(* A request that is handled as soon as it arrives *)
Redeem(code) ==
    /\ HandleExchange(code, IsFresh(code))
    /\ UNCHANGED requests
    /\ UNCHANGED <<redirect, users, everUser, reqs, bizVars>>

(* Variant: the expiry timer clears the token from both maps *)
ExpiryTimer_BothMaps(tm) ==
    /\ tm \in timers /\ tm.kind = "expiry"
    /\ now >= tm.due
    /\ tempTokenStore' = MapDelete(tempTokenStore, tm.token)
    /\ consumedTokens' = MapDelete(consumedTokens, tm.token)
    /\ timers' = timers \ {tm}
    /\ UNCHANGED <<now, used, issued, lost, grantedAt, grants, requests, last>>
    /\ UNCHANGED <<redirect, users, everUser, reqs, bizVars>>

(* setTimeout(() => tempTokenStore.delete(token), TOKEN_EXPIRY) runs *)
ExpiryTimer(tm) ==
    /\ tm \in timers /\ tm.kind = "expiry"
    /\ now >= tm.due
    /\ tempTokenStore' = MapDelete(tempTokenStore, tm.token)
    /\ timers' = timers \ {tm}
    /\ UNCHANGED <<now, consumedTokens, used, issued, lost, grantedAt, grants,
                   requests, last>>
    /\ UNCHANGED <<redirect, users, everUser, reqs, bizVars>>

(* setTimeout(() => consumedTokens.delete(token), CONSUMED_TOKEN_RETENTION) runs *)
PurgeTimer(tm) ==
    /\ tm \in timers /\ tm.kind = "purge"
    /\ now >= tm.due
    /\ consumedTokens' = MapDelete(consumedTokens, tm.token)
    /\ timers' = timers \ {tm}
    /\ UNCHANGED <<now, tempTokenStore, used, issued, lost, grantedAt, grants,
                   requests, last>>
    /\ UNCHANGED <<redirect, users, everUser, reqs, bizVars>>

(* The clock advances to the next observed instant.  The event loop runs a *)
(* due timer before the clock has moved two steps past its due time.       *)
Tick ==
    /\ \A tm \in timers : tm.due >= now
    /\ \E t \in Instants :
        /\ t > now
        /\ \A u \in Instants : u > now => t <= u
        /\ now' = t
    /\ UNCHANGED <<tempTokenStore, consumedTokens, timers, used, issued, lost,
                   grantedAt, grants, requests, last>>
    /\ UNCHANGED <<redirect, users, everUser, reqs, bizVars>>

(* Variant: a restart that keeps both maps (a store that outlives the     *)
(* process).                                                               *)
Restart_Persistent ==
    /\ used # lost
    /\ timers' = {}
    /\ requests' = [c \in Clients |-> None]
    /\ lost' = used
    /\ UNCHANGED <<now, tempTokenStore, consumedTokens, used, issued, grantedAt,
                   grants, last>>
    /\ UNCHANGED <<redirect, users, everUser, reqs, bizVars>>

(* The process restarts: module state is re-initialised, timers and the    *)
(* requests being served are gone.                                         *)
Restart ==
    /\ used # lost
    /\ tempTokenStore' = EmptyMap
    /\ consumedTokens' = EmptyMap
    /\ timers' = {}
    /\ requests' = [c \in Clients |-> None]
    /\ lost' = used
    /\ UNCHANGED <<now, used, issued, grantedAt, grants, last>>
    /\ UNCHANGED <<redirect, users, everUser, reqs, bizVars>>

(* The token store under sequential calls: issue, redeem, timers, clock,   *)
(* restart.                                                                *)
Next ==
    \/ \E data \in Payloads : IssueToken(data)
    \/ \E code \in Codes : Redeem(code)
    \/ \E tm \in timers : ExpiryTimer(tm)
    \/ \E tm \in timers : PurgeTimer(tm)
    \/ Tick
    \/ Restart

Spec == Init /\ [][Next]_vars

(* The exchange endpoint under concurrent requests for one issued token:   *)
(* requests of two clients wait and are handled in any order.              *)
GenerateOne(data) == used = {} /\ IssueToken(data)

RaceNext ==
    \/ \E data \in Payloads : GenerateOne(data)
    \/ \E c \in Clients, code \in Codes : ExchangeRequest(c, code)
    \/ \E c \in Clients : OAuthExchange(c)
    \/ \E tm \in timers : ExpiryTimer(tm)
    \/ \E tm \in timers : PurgeTimer(tm)
    \/ Tick
    \/ Restart

RaceSpec == Init /\ [][RaceNext]_vars

(* The store as a module: generateTempToken takes data of any type, here a *)
(* payload or a falsy value.                                               *)
ApiNext ==
    \/ \E data \in {"p1", Null} : IssueToken(data)
    \/ \E code \in Codes : Redeem(code)
    \/ \E tm \in timers : ExpiryTimer(tm)
    \/ \E tm \in timers : PurgeTimer(tm)
    \/ Tick

ApiSpec == Init /\ [][ApiNext]_vars

(* The store with the scheduling Node guarantees: the clock advances and a *)
(* timer whose delay has elapsed is eventually run.                        *)
LiveSpec ==
    /\ Spec
    /\ WF_vars(Tick)
    /\ WF_vars(\E tm \in timers : ExpiryTimer(tm))
    /\ WF_vars(\E tm \in timers : PurgeTimer(tm))

----------------------------------------------------------------------------
(* The email verification gate of the community endpoints *)

MsgAuthRequired == "Authentication required"
MsgUserNotFound == "User not found"
MsgVerificationRequired ==
    "Email verification required. Please verify your email to participate in discussions and favorites."
MsgLookupFailed == "Failed to verify email status"

Undefined == "undefined"
Verified == "date"               \* emailVerified holds a Date
Reverified == "later date"       \* a Date taken after one was stored
Roles == {"CUSTOMER", "VENDOR", "ADMIN"}
Hashes == {"h1", "h2"}           \* values of User.password
(* The values of req.user the gate can be handed: absent, without sub,     *)
(* with an empty sub, or with the id of a user                             *)
Principals == {None} \cup {[sub |-> s] : s \in UserIds \cup {Undefined, ""}}

NewReq ==
    [pc |-> "new", cred |-> None, route |-> None, chain |-> <<>>, idx |-> 0,
     user |-> None,
     found |-> None, sent |-> 0, status |-> 0, message |-> "none", nexts |-> 0,
     lookups |-> 0, thrown |-> FALSE, escaped |-> FALSE, trace |-> <<>>]

(* res.status(status).json({code, status: 'error', message}) *)
Respond(q, status, message) ==
    [q EXCEPT !.pc = "done", !.sent = @ + 1, !.status = status,
              !.message = message]

(* next(): control passes to the handler registered after this one *)
CallNext(q) ==
    LET i == q.idx + 1
    IN  [q EXCEPT !.idx = i,
                  !.pc = IF i <= Len(q.chain) THEN q.chain[i] ELSE "done"]

(* authReq.user?.sub *)
UserIdOf(user) == IF user = None THEN Undefined ELSE user.sub

HasUserId_Always(userId) == TRUE
(* the negation of the test !userId *)
HasUserId(userId) == userId \notin {Undefined, ""}

(* the fields findById selects, of those the table holds here *)
Selected(row) == [emailVerified |-> row.emailVerified, role |-> row.role]

findById_FirstUser(table, id) ==
    IF MapHas(table, "u1") THEN Selected(table["u1"]) ELSE None
(* UserRepository.findById: the record stored under the id, or null *)
findById(table, id) == IF MapHas(table, id) THEN Selected(table[id]) ELSE None

IsVerified_Always(user) == TRUE
IsVerified_Never(user) == FALSE
(* the negation of the test !user.emailVerified *)
IsVerified(user) == user.emailVerified # Null

GateDecide_NoCatch(q) ==
    IF q.thrown THEN [q EXCEPT !.pc = "done", !.escaped = TRUE]
    ELSE IF q.found = None THEN Respond(q, 404, MsgUserNotFound)
    ELSE IF ~IsVerified(q.found) THEN Respond(q, 403, MsgVerificationRequired)
    ELSE [CallNext(q) EXCEPT !.nexts = @ + 1]
GateDecide_RespondAndNext(q) ==
    IF q.thrown THEN Respond(q, 500, MsgLookupFailed)
    ELSE IF q.found = None THEN Respond(q, 404, MsgUserNotFound)
    ELSE IF ~IsVerified(q.found)
    THEN [Respond(q, 403, MsgVerificationRequired) EXCEPT !.nexts = @ + 1]
    ELSE [CallNext(q) EXCEPT !.nexts = @ + 1]
GateDecide_NullAsUnverified(q) ==
    IF q.thrown THEN Respond(q, 500, MsgLookupFailed)
    ELSE IF q.found = None THEN Respond(q, 403, MsgVerificationRequired)
    ELSE IF ~IsVerified(q.found) THEN Respond(q, 403, MsgVerificationRequired)
    ELSE [CallNext(q) EXCEPT !.nexts = @ + 1]
(* What execute does once the lookup has settled: the catch block, the two *)
(* rejections and next()                                                   *)
GateDecide(q) ==
    IF q.thrown THEN Respond(q, 500, MsgLookupFailed)
    ELSE IF q.found = None THEN Respond(q, 404, MsgUserNotFound)
    ELSE IF ~IsVerified(q.found) THEN Respond(q, 403, MsgVerificationRequired)
    ELSE [CallNext(q) EXCEPT !.nexts = @ + 1]

(* execute is invoked on a request carrying the principal user *)
GateCall(r, user) ==
    /\ reqs[r].pc = "new"
    /\ reqs' = [reqs EXCEPT ![r] =
                  [NewReq EXCEPT !.pc = "gate", !.chain = <<"gate">>,
                                 !.idx = 1, !.user = user]]
    /\ UNCHANGED <<users, everUser, tokenVars, redirect, bizVars>>

(* execute up to its await: the 401 answer, or the lookup is issued *)
GateExecute(r) ==
    LET q == [reqs[r] EXCEPT !.trace = Append(@, "gate")]
    IN  /\ reqs[r].pc = "gate"
        /\ reqs' = [reqs EXCEPT ![r] =
                      IF ~HasUserId(UserIdOf(q.user))
                      THEN Respond(q, 401, MsgAuthRequired)
                      ELSE [q EXCEPT !.pc = "lookup", !.lookups = @ + 1]]
        /\ UNCHANGED <<users, everUser, tokenVars, redirect, bizVars>>

(* the database answers the lookup from the table as it is now *)
FindByIdResolve(r) ==
    /\ reqs[r].pc = "lookup"
    /\ reqs' = [reqs EXCEPT ![r].pc = "resume",
                            ![r].found = findById(users, UserIdOf(reqs[r].user))]
    /\ UNCHANGED <<users, everUser, tokenVars, redirect, bizVars>>

(* the lookup raises *)
FindByIdReject(r) ==
    /\ reqs[r].pc = "lookup"
    /\ reqs' = [reqs EXCEPT ![r].pc = "resume", ![r].thrown = TRUE]
    /\ UNCHANGED <<users, everUser, tokenVars, redirect, bizVars>>

(* execute after its await *)
GateResume(r) ==
    /\ reqs[r].pc = "resume"
    /\ reqs' = [reqs EXCEPT ![r] = GateDecide(reqs[r])]
    /\ UNCHANGED <<users, everUser, tokenVars, redirect, bizVars>>

(* UserRepository.create: a new record under an id not used before, with  *)
(* the role the schema gives by default                                    *)
CreateUser(u, emailVerified) ==
    /\ u \notin everUser
    /\ users' = MapSet(users, u, [emailVerified |-> emailVerified,
                                  role |-> "CUSTOMER", password |-> "h1"])
    /\ everUser' = everUser \cup {u}
    /\ UNCHANGED <<reqs, tokenVars, redirect, bizVars>>

NewDate_Toggle(stored) == IF stored = Null THEN Verified ELSE Null
(* new Date(): a date later than any the row holds *)
NewDate(stored) == IF stored = Verified THEN Reverified ELSE Verified

(* UserRepository.markEmailVerified *)
MarkEmailVerified(u) ==
    /\ MapHas(users, u)
    /\ users' = [users EXCEPT ![u].emailVerified = NewDate(@)]
    /\ UNCHANGED <<everUser, reqs, tokenVars, redirect, bizVars>>

(* UserRepository.updateRole *)
UpdateRole(u, role) ==
    /\ MapHas(users, u)
    /\ users' = [users EXCEPT ![u].role = role]
    /\ UNCHANGED <<everUser, reqs, tokenVars, redirect, bizVars>>

(* UserRepository.updatePassword *)
UpdatePassword(u, hashedPassword) ==
    /\ MapHas(users, u)
    /\ users' = [users EXCEPT ![u].password = hashedPassword]
    /\ UNCHANGED <<everUser, reqs, tokenVars, redirect, bizVars>>

(* verification revoked by an administrator or the system *)
RevokeVerification(u) ==
    /\ MapHas(users, u)
    /\ users[u].emailVerified # Null
    /\ users' = [users EXCEPT ![u].emailVerified = Null]
    /\ UNCHANGED <<everUser, reqs, tokenVars, redirect, bizVars>>

(* AdminService.deleteUser *)
DeleteUser(u) ==
    /\ MapHas(users, u)
    /\ users' = MapDelete(users, u)
    /\ UNCHANGED <<everUser, reqs, tokenVars, redirect, bizVars>>

DbNext ==
    \/ \E u \in UserIds, ev \in {Null, Verified} : CreateUser(u, ev)
    \/ \E u \in UserIds : MarkEmailVerified(u)
    \/ \E u \in UserIds : RevokeVerification(u)
    \/ \E u \in UserIds : DeleteUser(u)

GateNext ==
    \/ \E r \in Reqs, user \in Principals : GateCall(r, user)
    \/ \E r \in Reqs : GateExecute(r)
    \/ \E r \in Reqs : FindByIdResolve(r)
    \/ \E r \in Reqs : FindByIdReject(r)
    \/ \E r \in Reqs : GateResume(r)
    \/ DbNext

GateSpec == Init /\ [][GateNext]_vars

(* The user table under the operations of UserRepository alone *)
RepoNext ==
    \/ \E u \in UserIds, ev \in {Null, Verified} : CreateUser(u, ev)
    \/ \E u \in UserIds : MarkEmailVerified(u)
    \/ \E u \in UserIds, role \in Roles : UpdateRole(u, role)
    \/ \E u \in UserIds, h \in Hashes : UpdatePassword(u, h)

RepoSpec == Init /\ [][RepoNext]_vars

----------------------------------------------------------------------------
(* The routers of the community endpoints *)

Param == ":param"                \* a named segment such as :id, :businessId
Methods == {"GET", "POST", "PUT", "DELETE"}
Routers == {"discussions", "favorites"}
Paths ==
    {<<>>, <<"x1">>, <<"toggle">>, <<"user", "my-discussions">>,
     <<"business", "x1">>, <<"check", "x1">>, <<"business", "x1", "count">>}
Controllers ==
    {"getBusinessDiscussions", "getDiscussionById", "getMyDiscussions",
     "createDiscussion", "updateDiscussion", "deleteDiscussion",
     "getBusinessFavoriteCount", "getUserFavorites", "checkFavorite",
     "addFavorite", "toggleFavorite", "removeFavorite"}
(* What a request presents to the authentication middleware *)
Credentials ==
    {[kind |-> "missing"], [kind |-> "invalid"]}
        \cup {[kind |-> "valid", sub |-> u] : u \in UserIds}
PipeReqs == {"r1"}               \* the request followed through its chain

Route(router, method, pattern, chain) ==
    [router |-> router, method |-> method, pattern |-> pattern, chain |-> chain]

DiscussionRoutes_CreateUngated ==
    << Route("discussions", "GET", <<"business", Param>>, <<"getBusinessDiscussions">>),
       Route("discussions", "GET", <<Param>>, <<"getDiscussionById">>),
       Route("discussions", "GET", <<"user", "my-discussions">>,
             <<"auth", "gate", "getMyDiscussions">>),
       Route("discussions", "POST", <<>>, <<"auth", "createDiscussion">>),
       Route("discussions", "PUT", <<Param>>, <<"auth", "gate", "updateDiscussion">>),
       Route("discussions", "DELETE", <<Param>>, <<"auth", "gate", "deleteDiscussion">>) >>
(* routes/discussionRoutes.ts, in the order of registration *)
DiscussionRoutes ==
    << Route("discussions", "GET", <<"business", Param>>, <<"getBusinessDiscussions">>),
       Route("discussions", "GET", <<Param>>, <<"getDiscussionById">>),
       Route("discussions", "GET", <<"user", "my-discussions">>,
             <<"auth", "gate", "getMyDiscussions">>),
       Route("discussions", "POST", <<>>, <<"auth", "gate", "createDiscussion">>),
       Route("discussions", "PUT", <<Param>>, <<"auth", "gate", "updateDiscussion">>),
       Route("discussions", "DELETE", <<Param>>, <<"auth", "gate", "deleteDiscussion">>) >>

FavoriteRoutes_CountGated ==
    << Route("favorites", "GET", <<"business", Param, "count">>,
             <<"auth", "gate", "getBusinessFavoriteCount">>),
       Route("favorites", "GET", <<>>, <<"auth", "gate", "getUserFavorites">>),
       Route("favorites", "GET", <<"check", Param>>, <<"auth", "gate", "checkFavorite">>),
       Route("favorites", "POST", <<>>, <<"auth", "gate", "addFavorite">>),
       Route("favorites", "POST", <<"toggle">>, <<"auth", "gate", "toggleFavorite">>),
       Route("favorites", "DELETE", <<Param>>, <<"auth", "gate", "removeFavorite">>) >>
(* routes/favoriteRoutes.ts, in the order of registration *)
FavoriteRoutes ==
    << Route("favorites", "GET", <<"business", Param, "count">>,
             <<"getBusinessFavoriteCount">>),
       Route("favorites", "GET", <<>>, <<"auth", "gate", "getUserFavorites">>),
       Route("favorites", "GET", <<"check", Param>>, <<"auth", "gate", "checkFavorite">>),
       Route("favorites", "POST", <<>>, <<"auth", "gate", "addFavorite">>),
       Route("favorites", "POST", <<"toggle">>, <<"auth", "gate", "toggleFavorite">>),
       Route("favorites", "DELETE", <<Param>>, <<"auth", "gate", "removeFavorite">>) >>

RoutesOf(router) ==
    IF router = "discussions" THEN DiscussionRoutes ELSE FavoriteRoutes

(* a route matches a request of its method whose path fits its pattern *)
Matches(route, method, path) ==
    /\ route.method = method
    /\ Len(route.pattern) = Len(path)
    /\ \A i \in 1..Len(path) :
          route.pattern[i] = Param \/ route.pattern[i] = path[i]

(* the router runs the first registered route that matches, if any *)
Resolve(router, method, path) ==
    LET rs == RoutesOf(router)
        hits == {i \in 1..Len(rs) : Matches(rs[i], method, path)}
    IN  IF hits = {} THEN None
        ELSE rs[CHOOSE i \in hits : \A j \in hits : i <= j]

(* a request arrives at a router *)
HttpRequest(r, router, method, path, cred) ==
    LET route == Resolve(router, method, path)
    IN  /\ reqs[r].pc = "new"
        /\ reqs' = [reqs EXCEPT ![r] =
                      IF route = None
                      THEN Respond([NewReq EXCEPT !.cred = cred], 404, "Not Found")
                      ELSE [NewReq EXCEPT !.cred = cred,
                                          !.route = [router |-> route.router,
                                                     method |-> route.method,
                                                     pattern |-> route.pattern],
                                          !.chain = route.chain,
                                          !.idx = 1,
                                          !.pc = route.chain[1]]]
        /\ UNCHANGED <<users, everUser, tokenVars, redirect, bizVars>>

(* AuthMiddleware.execute: 401 without a valid credential, else the        *)
(* principal is put on the request and next() is called                    *)
AuthExecute(r) ==
    LET q == [reqs[r] EXCEPT !.trace = Append(@, "auth")]
    IN  /\ reqs[r].pc = "auth"
        /\ reqs' = [reqs EXCEPT ![r] =
                      IF q.cred.kind # "valid"
                      THEN Respond(q, 401, "Unauthorized")
                      ELSE CallNext([q EXCEPT !.user = [sub |-> q.cred.sub]])]
        /\ UNCHANGED <<users, everUser, tokenVars, redirect, bizVars>>

(* the controller method of the route runs and answers *)
Controller(r) ==
    /\ reqs[r].pc \in Controllers
    /\ reqs' = [reqs EXCEPT ![r] =
                  Respond([reqs[r] EXCEPT !.trace = Append(@, reqs[r].pc)],
                          200, "success")]
    /\ UNCHANGED <<users, everUser, tokenVars, redirect, bizVars>>

PipeNext ==
    \/ \E r \in PipeReqs, router \in Routers, method \in Methods,
          path \in Paths, cred \in Credentials :
            HttpRequest(r, router, method, path, cred)
    \/ \E r \in PipeReqs : AuthExecute(r)
    \/ \E r \in PipeReqs : GateExecute(r)
    \/ \E r \in PipeReqs : FindByIdResolve(r)
    \/ \E r \in PipeReqs : FindByIdReject(r)
    \/ \E r \in PipeReqs : GateResume(r)
    \/ \E r \in PipeReqs : Controller(r)
    \/ DbNext

PipeSpec == Init /\ [][PipeNext]_vars

----------------------------------------------------------------------------
(* The OAuth callback: GET /v1/google/callback and AuthController.OAuthCallback *)

MsgOAuthFailed == "OAuth authentication failed"

(* What the provider authentication hands the callback as req.user: a      *)
(* service result, with or without a code                                  *)
Results ==
    [status : {"success"}, data : Payloads \cup {Null},
     message : {"Login successful"}, code : {200}]
    \cup [status : {"success"}, data : Payloads \cup {Null}, message : {""}]
    \cup [status : {"error"}, data : {"p1", Null},
          message : {"Account disabled"}, code : {403}]
    \cup [status : {"error"}, data : {"p1", Null}, message : {""}]

(* The (err, user, info) passport calls back with *)
PassportOutcomes ==
    {[err |-> [message |-> m], user |-> None, info |-> None] :
        m \in {"", "provider error"}}
    \cup {[err |-> None, user |-> None, info |-> i] :
        i \in {None, [message |-> "access denied"]}}
    \cup {[err |-> None, user |-> result, info |-> None] : result \in Results}

(* a || b on message strings *)
OrElse(a, b) == IF a = "" THEN b ELSE a

(* encodeURIComponent leaves the hex digits of a token as they are *)
encodeURIComponent(token) == token

(* res.redirect to /oauth-callback?status=error&message=..&code=.. *)
ErrorRedirect(message, code) ==
    [kind |-> "error", status |-> "error", message |-> message, code |-> code]

IsSuccess_StatusOnly(result) == result.status = "success"
(* result.status === 'success' && result.data *)
IsSuccess(result) == result.status = "success" /\ ~IsFalsy(result.data)

(* AuthController.OAuthCallback with req.user = oauthResult *)
OAuthCallback(oauthResult) ==
    LET result == IF oauthResult = None
                  THEN [code |-> 500, status |-> "error",
                        message |-> MsgOAuthFailed, data |-> Null]
                  ELSE oauthResult
    IN  IF IsSuccess(result)
        THEN /\ GenerateTempToken(result.data)
             /\ redirect' = [kind |-> "code", code |-> encodeURIComponent(NextToken)]
        ELSE /\ redirect' =
                    ErrorRedirect(OrElse(result.message, MsgOAuthFailed),
                                  \* result.code?.toString() || '500'
                                  IF "code" \in DOMAIN result
                                  THEN ToString(result.code) ELSE "500")
             /\ UNCHANGED tokenVars

(* GET /v1/google/callback: the passport callback, then the controller *)
GoogleCallback(o) ==
    /\ IF o.err # None
       THEN /\ redirect' =
                   ErrorRedirect(OrElse(o.err.message, MsgOAuthFailed), "500")
            /\ UNCHANGED tokenVars
       ELSE IF o.user = None
       THEN /\ redirect' =
                   ErrorRedirect(IF o.info = None THEN MsgOAuthFailed
                                 ELSE OrElse(o.info.message, MsgOAuthFailed), "401")
            /\ UNCHANGED tokenVars
       ELSE OAuthCallback(o.user)
    /\ UNCHANGED <<gateVars, bizVars>>

(* the frontend exchanges the code of the redirect it received last *)
FrontendExchange ==
    /\ redirect # None
    /\ redirect.kind = "code"
    /\ Redeem(redirect.code)

CallbackNext ==
    \/ \E o \in PassportOutcomes : GoogleCallback(o)
    \/ FrontendExchange
    \/ \E tm \in timers : ExpiryTimer(tm)
    \/ \E tm \in timers : PurgeTimer(tm)
    \/ Tick

CallbackSpec == Init /\ [][CallbackNext]_vars

----------------------------------------------------------------------------
(* Properties *)

Payload(t) == issued[t].data
ExpiresAt(t) == issued[t].expiresAt
InMaps(t) == MapHas(tempTokenStore, t) \/ MapHas(consumedTokens, t)
Answered == last # None

(* C1: Single fresh redemption.  An exchange of a token that is still in   *)
(* the pending store and not past expiresAt returns the payload it was     *)
(* issued with, and afterwards the token is absent from tempTokenStore and *)
(* present in consumedTokens with that payload.                            *)
C1_SingleFreshRedemption ==
    [][\A t \in Tokens :
        (Redeem(t) /\ IsFresh(t)) =>
            /\ last'.data = Payload(t)
            /\ last'.path = "pending"
            /\ ~MapHas(tempTokenStore', t)
            /\ MapHas(consumedTokens', t)
            /\ consumedTokens'[t] = [data |-> Payload(t), consumedAt |-> now]]_vars

C1_Witness ==
    /\ Answered /\ last.fresh /\ last.path = "pending"
    /\ last.data = Payload(last.code)
    /\ MapHas(consumedTokens, last.code) /\ ~MapHas(tempTokenStore, last.code)

(* C2: Concurrent redemption race.  When the handler runs for a request    *)
(* that arrived while its token was pending and unexpired: it takes the    *)
(* pending path only if no other request took it before; if another        *)
(* request took it less than the retention ago, it is answered the same    *)
(* payload from the consumed cache; and it is answered null only when      *)
(* expiresAt has been reached or the retention after the first redemption  *)
(* has passed.                                                             *)
C2_ConcurrentRedemption ==
    [][\A c \in Clients :
        (OAuthExchange(c) /\ requests[c].fresh) =>
            LET t == requests[c].code IN
            /\ last'.path = "pending" => grants[t] = 0
            /\ grants'[t] <= 1
            /\ (MapHas(grantedAt, t) /\ now - grantedAt[t] < CONSUMED_TOKEN_RETENTION)
                  => (last'.path = "consumed" /\ last'.data = Payload(t))
            /\ last'.data = Null =>
                  \/ now >= ExpiresAt(t)
                  \/ /\ MapHas(grantedAt, t)
                     /\ now - grantedAt[t] >= CONSUMED_TOKEN_RETENTION]_vars

C2_Witness ==
    /\ Answered /\ last.fresh /\ last.path = "consumed"
    /\ last.at < ExpiresAt(last.code)
    /\ last.data = Payload(last.code)
    /\ grants[last.code] = 1

(* C3 as stated: no exchange made later than expiresAt returns the payload *)
C3_NeverAfterExpiresAt ==
    [][\A t \in Tokens :
        (Redeem(t) /\ MapHas(issued, t) /\ now > ExpiresAt(t)) =>
            last'.data = Null]_vars

(* C3 amended: an exchange made later than expiresAt never takes the       *)
(* pending path; it returns the payload only from the consumed cache, for  *)
(* a token that was redeemed at or before expiresAt less than the          *)
(* retention ago.                                                          *)
C3_NoFreshGrantAfterExpiresAt ==
    [][\A t \in Tokens :
        (Redeem(t) /\ MapHas(issued, t) /\ now > ExpiresAt(t)) =>
            /\ last'.path # "pending"
            /\ MapHas(tempTokenStore, t) => last'.data = Null
            /\ last'.data # Null =>
                  /\ last'.path = "consumed"
                  /\ MapHas(grantedAt, t)
                  /\ grantedAt[t] <= ExpiresAt(t)
                  /\ now - grantedAt[t] < CONSUMED_TOKEN_RETENTION]_vars

C3_Witness ==
    /\ Answered /\ last.path = "consumed" /\ last.data = Payload(last.code)
    /\ last.at > ExpiresAt(last.code)

(* C4: At most one fresh grant.  Every token takes the pending path at     *)
(* most once; an answer with a payload that did not take the pending path  *)
(* came from the consumed cache of a token granted once.                   *)
C4_AtMostOneFreshGrant ==
    /\ \A t \in Tokens : grants[t] <= 1
    /\ (Answered /\ last.data # Null /\ last.path # "pending") =>
          (last.path = "consumed" /\ grants[last.code] = 1)

C4_Witness ==
    /\ Answered /\ last.path = "consumed" /\ grants[last.code] = 1
    /\ lost # {}

(* C5: Idempotent duplicate redemption.  An exchange made less than the    *)
(* retention after the first redemption of the token, in the same process, *)
(* returns the same payload and changes neither map.                       *)
C5_IdempotentDuplicate ==
    [][\A t \in Tokens :
        (/\ Redeem(t)
         /\ MapHas(grantedAt, t) /\ t \notin lost
         /\ now - grantedAt[t] < CONSUMED_TOKEN_RETENTION) =>
            /\ last'.data = Payload(t)
            /\ last'.path = "consumed"
            /\ UNCHANGED <<tempTokenStore, consumedTokens>>]_vars

C5_Witness ==
    /\ Answered /\ last.path = "consumed" /\ last.data = Payload(last.code)
    /\ last.code \notin lost
    /\ last.at > grantedAt[last.code]

(* C6: Post-grace expiry of a consumed token.  An exchange made the        *)
(* retention or more after the first redemption returns null and leaves    *)
(* the token absent from the consumed cache.                               *)
C6_PostGraceExpiry ==
    [][\A t \in Tokens :
        (/\ Redeem(t)
         /\ MapHas(grantedAt, t)
         /\ now - grantedAt[t] >= CONSUMED_TOKEN_RETENTION) =>
            /\ last'.data = Null
            /\ ~MapHas(consumedTokens', t)]_vars

C6_Witness ==
    /\ Answered /\ last.path = "stale" /\ last.data = Null
    /\ last.at - grantedAt[last.code] >= CONSUMED_TOKEN_RETENTION
    /\ ~MapHas(consumedTokens, last.code)

(* C7: Expiry without redemption.  A token that was never redeemed is      *)
(* never in the consumed cache; an exchange of it made after expiresAt     *)
(* returns null, leaves it absent from both maps and leaves it unredeemed. *)
C7_ExpiryWithoutRedemption ==
    [][\A t \in Tokens :
        /\ ~MapHas(grantedAt', t) => ~MapHas(consumedTokens', t)
        /\ (/\ Redeem(t)
            /\ MapHas(issued, t) /\ ~MapHas(grantedAt, t)
            /\ now > ExpiresAt(t)) =>
               /\ last'.data = Null
               /\ ~MapHas(tempTokenStore', t)
               /\ ~MapHas(consumedTokens', t)
               /\ ~MapHas(grantedAt', t)]_vars

C7_Witness ==
    /\ Answered /\ last.path = "expired" /\ last.data = Null
    /\ last.at > ExpiresAt(last.code)
    /\ ~MapHas(grantedAt, last.code)
    /\ ~InMaps(last.code)

(* C8: Unknown token.  An exchange of a string that was never issued       *)
(* returns null and changes neither map nor the timers.                    *)
C8_UnknownToken ==
    [][\A code \in Codes :
        (Redeem(code) /\ code \notin used) =>
            /\ last'.data = Null
            /\ UNCHANGED <<tempTokenStore, consumedTokens, timers>>]_vars

C8_Witness ==
    /\ Answered /\ last.code \notin used /\ last.data = Null
    /\ tempTokenStore # EmptyMap

(* C9: Eventual purge.  Under LiveSpec every token that is in one of the   *)
(* maps is eventually in neither, for good.                                *)
C9_EventualPurge ==
    \A t \in Tokens : [](InMaps(t) => <>[](~InMaps(t)))

C9_Witness ==
    \E t \in Tokens :
        /\ MapHas(grantedAt, t) /\ t \notin lost /\ ~InMaps(t)
        /\ \A tm \in timers : tm.token # t

(* C10: Restart invalidates all tokens.  An exchange of a token that was   *)
(* issued before the last restart returns null.                            *)
C10_RestartInvalidates ==
    [][\A t \in Tokens : (Redeem(t) /\ t \in lost) => last'.data = Null]_vars

C10_Witness ==
    /\ Answered /\ last.code \in lost /\ last.data = Null
    /\ MapHas(grantedAt, last.code)
    /\ last.at - grantedAt[last.code] < CONSUMED_TOKEN_RETENTION

----------------------------------------------------------------------------
(* Properties of the email verification gate *)

NoPrincipal(q) == q.user = None \/ q.user.sub = Undefined
Looked(q) == q.pc \in {"resume", "done"} /\ q.lookups > 0 /\ ~q.thrown
SubOf(r) == reqs[r].user.sub

(* C11: Gate requires auth.  A request that reaches the gate with no       *)
(* principal (req.user absent, or without sub) is answered 401             *)
(* 'Authentication required'; no user lookup is made for it, next() is     *)
(* never called, and it is never answered 403 or 404.                      *)
C11_GateRequiresAuth ==
    \A r \in Reqs :
        (reqs[r].pc # "new" /\ NoPrincipal(reqs[r])) =>
            /\ reqs[r].pc \in {"gate", "done"}
            /\ reqs[r].lookups = 0
            /\ reqs[r].nexts = 0
            /\ reqs[r].status \in {0, 401}
            /\ reqs[r].pc = "done" =>
                  /\ reqs[r].status = 401
                  /\ reqs[r].message = "Authentication required"

C11_Witness ==
    \E r1, r2 \in Reqs :
        /\ reqs[r1].pc = "done" /\ reqs[r1].user = None
        /\ reqs[r1].status = 401
        /\ reqs[r2].pc = "done" /\ reqs[r2].user = [sub |-> Undefined]
        /\ reqs[r2].status = 401

(* C12: Gate blocks unverified.  A request whose principal's record was    *)
(* found with emailVerified absent is answered 403 with the fixed          *)
(* verification-required message, and next() is never called for it.       *)
C12_GateBlocksUnverified ==
    \A r \in Reqs :
        (Looked(reqs[r]) /\ reqs[r].found # None
                         /\ reqs[r].found.emailVerified = Null) =>
            /\ reqs[r].nexts = 0
            /\ reqs[r].status \in {0, 403}
            /\ reqs[r].pc = "done" =>
                  /\ reqs[r].status = 403
                  /\ reqs[r].message =
                        "Email verification required. Please verify your email to participate in discussions and favorites."

C12_Witness ==
    \E r \in Reqs :
        /\ reqs[r].pc = "done" /\ reqs[r].status = 403
        /\ reqs[r].found # None /\ reqs[r].found.emailVerified = Null

(* C13: Gate allows verified.  When the principal's record was found with  *)
(* emailVerified set, the gate calls next() exactly once, sends no         *)
(* response, and changes neither the request's principal nor the account.  *)
C13_GateAllowsVerified ==
    [][\A r \in Reqs :
        /\ reqs'[r].nexts <= 1
        /\ (GateResume(r) /\ ~reqs[r].thrown /\ reqs[r].found # None
                          /\ reqs[r].found.emailVerified # Null) =>
              /\ reqs[r].nexts = 0 /\ reqs'[r].nexts = 1
              /\ reqs'[r].status = 0 /\ reqs'[r].message = "none"
              /\ reqs'[r].idx = reqs[r].idx + 1
              /\ reqs'[r].user = reqs[r].user
              /\ users' = users]_vars

C13_Witness ==
    \E r \in Reqs :
        /\ reqs[r].pc = "done" /\ reqs[r].nexts = 1 /\ reqs[r].status = 0
        /\ reqs[r].found # None /\ reqs[r].found.emailVerified = Verified

(* C14: Gate reads current state.  The lookup of a request returns the     *)
(* record stored under the principal's own id at the moment it is          *)
(* answered, and the decision is taken from the emailVerified of that      *)
(* record alone: next() exactly when it is set, 403 exactly when it is     *)
(* absent.  So a request made after verification was set or removed is     *)
(* decided by the new value.                                               *)
C14_GateReadsCurrentState ==
    [][\A r \in Reqs :
        /\ FindByIdResolve(r) =>
              IF SubOf(r) \in DOMAIN users
              THEN /\ reqs'[r].found # None
                   /\ reqs'[r].found.emailVerified =
                          users[SubOf(r)].emailVerified
              ELSE reqs'[r].found = None
        /\ (GateResume(r) /\ ~reqs[r].thrown /\ reqs[r].found # None) =>
              /\ reqs'[r].nexts = 1 <=> reqs[r].found.emailVerified # Null
              /\ reqs'[r].status = 403 <=> reqs[r].found.emailVerified = Null
              /\ reqs'[r].status \in {0, 403}]_vars

C14_Witness ==
    \E r1, r2 \in Reqs :
        /\ reqs[r1].pc = "done" /\ reqs[r2].pc = "done"
        /\ reqs[r1].user = reqs[r2].user
        /\ reqs[r1].status = 403 /\ reqs[r1].nexts = 0
        /\ reqs[r2].status = 0 /\ reqs[r2].nexts = 1
        /\ MapHas(users, SubOf(r2))
        /\ users[SubOf(r2)].emailVerified = Verified

(* C16: Missing principal record.  A request with a principal whose id has *)
(* no record at the lookup (for instance a user an administrator deleted)  *)
(* is answered 404 'User not found', and next() is not called.             *)
C16_MissingPrincipalRecord ==
    [][\A r \in Reqs :
        /\ (FindByIdResolve(r) /\ SubOf(r) \notin DOMAIN users) =>
              reqs'[r].found = None
        /\ (GateResume(r) /\ ~reqs[r].thrown /\ reqs[r].found = None) =>
              /\ reqs'[r].pc = "done"
              /\ reqs'[r].status = 404
              /\ reqs'[r].message = "User not found"
              /\ reqs'[r].nexts = 0]_vars

C16_Witness ==
    \E r \in Reqs :
        /\ reqs[r].pc = "done" /\ reqs[r].status = 404
        /\ SubOf(r) \in everUser /\ ~MapHas(users, SubOf(r))

(* C17: Lookup failure.  When the lookup raises, the request is answered   *)
(* 500 'Failed to verify email status'; next() is not called, the lookup   *)
(* is not made again, and the error does not leave the gate.               *)
C17_LookupFailure ==
    [][\A r \in Reqs :
        (GateResume(r) /\ reqs[r].thrown) =>
            /\ reqs'[r].pc = "done"
            /\ reqs'[r].status = 500
            /\ reqs'[r].message = "Failed to verify email status"
            /\ reqs'[r].nexts = 0
            /\ reqs'[r].lookups = 1
            /\ ~reqs'[r].escaped]_vars

C17_Witness ==
    \E r \in Reqs :
        /\ reqs[r].pc = "done" /\ reqs[r].thrown
        /\ reqs[r].status = 500 /\ reqs[r].lookups = 1

----------------------------------------------------------------------------
(* Properties of the routers *)

Endpoint(router, method, pattern) ==
    [router |-> router, method |-> method, pattern |-> pattern]
RanController(q) == \E i \in 1..Len(q.trace) : q.trace[i] \in Controllers
RejectedByMiddleware(q) ==
    /\ q.pc = "done" /\ q.trace # <<>>
    /\ q.trace[Len(q.trace)] \in {"auth", "gate"}

(* C15: Gated pipeline ordering.  On each of the nine community endpoints  *)
(* the controller runs only after the authentication middleware and then   *)
(* the gate have both run and passed, in that order; a request either of   *)
(* them rejected never reaches the controller.                             *)
C15_GatedPipelineOrdering ==
    \A r \in PipeReqs :
        reqs[r].route \in
            {Endpoint("discussions", "POST", <<>>),
             Endpoint("discussions", "PUT", <<Param>>),
             Endpoint("discussions", "DELETE", <<Param>>),
             Endpoint("discussions", "GET", <<"user", "my-discussions">>),
             Endpoint("favorites", "GET", <<>>),
             Endpoint("favorites", "GET", <<"check", Param>>),
             Endpoint("favorites", "POST", <<>>),
             Endpoint("favorites", "POST", <<"toggle">>),
             Endpoint("favorites", "DELETE", <<Param>>)} =>
            /\ (reqs[r].pc \in Controllers \/ RanController(reqs[r])) =>
                  /\ Len(reqs[r].trace) >= 2
                  /\ reqs[r].trace[1] = "auth" /\ reqs[r].trace[2] = "gate"
                  /\ Len(reqs[r].trace) = 3 =>
                        reqs[r].trace[3] = reqs[r].chain[3]
                  /\ Len(reqs[r].trace) <= 3
                  /\ reqs[r].cred.kind = "valid"
                  /\ reqs[r].user = [sub |-> reqs[r].cred.sub]
                  /\ reqs[r].nexts = 1
                  /\ reqs[r].found # None
                  /\ reqs[r].found.emailVerified # Null
            /\ RejectedByMiddleware(reqs[r]) =>
                  /\ ~RanController(reqs[r])
                  /\ reqs[r].status \in {401, 403, 404, 500}

C15_Witness ==
    \E r \in PipeReqs :
        /\ reqs[r].route = Endpoint("favorites", "POST", <<"toggle">>)
        /\ reqs[r].pc = "done" /\ reqs[r].status = 200
        /\ reqs[r].trace = <<"auth", "gate", "toggleFavorite">>

----------------------------------------------------------------------------
(* Properties of the OAuth callback and of the exchange endpoint's answers *)

HoldsSomeToken ==
    \/ DOMAIN tempTokenStore # {}
    \/ \E t \in DOMAIN consumedTokens :
          now - consumedTokens[t].consumedAt < CONSUMED_TOKEN_RETENTION

(* C18: OAuth callback hand-off.  When the provider authentication ended   *)
(* with a result of status 'success' carrying a payload, the callback      *)
(* issues exactly one token, never issued before, bound to that payload,   *)
(* and redirects with the token as the parameter code; in every other case *)
(* (an error, no user, a result that is not a success, a result without    *)
(* payload) it redirects with status=error, a message and an http status   *)
(* code, and leaves the store as it was.                                   *)
C18_OAuthCallbackHandOff ==
    [][\A o \in PassportOutcomes :
        GoogleCallback(o) =>
            IF /\ o.err = None /\ o.user # None
               /\ o.user.status = "success" /\ o.user.data \in Payloads
            THEN \E t \in Tokens :
                    /\ t \notin used
                    /\ used' = used \cup {t}
                    /\ DOMAIN tempTokenStore' = DOMAIN tempTokenStore \cup {t}
                    /\ tempTokenStore'[t].data = o.user.data
                    /\ \A t2 \in DOMAIN tempTokenStore :
                          tempTokenStore'[t2] = tempTokenStore[t2]
                    /\ consumedTokens' = consumedTokens
                    /\ redirect' = [kind |-> "code", code |-> t]
            ELSE /\ tempTokenStore' = tempTokenStore
                 /\ consumedTokens' = consumedTokens
                 /\ timers' = timers
                 /\ used' = used
                 /\ redirect'.kind = "error"
                 /\ redirect'.status = "error"
                 /\ redirect'.message # ""
                 /\ redirect'.code \in {"200", "401", "403", "500"}]_vars

C18_Witness ==
    /\ redirect # None
    /\ redirect.kind = "code"
    /\ MapHas(tempTokenStore, redirect.code)
    /\ tempTokenStore[redirect.code].data \in Payloads
    /\ used = Tokens

(* C19: Exchange endpoint result.  A request with a string code is         *)
(* answered 200 with the payload as data exactly when the redemption of    *)
(* the code returns the payload, which is the one the token was issued     *)
(* with; it is answered 400 with a message when the redemption returns     *)
(* nothing.                                                                *)
C19_ExchangeEndpointResult ==
    [][\A code \in Codes :
        Redeem(code) =>
            LET r == exchangeTempToken(code)
            IN  /\ last'.status = 200 <=> r.data \in Payloads
                /\ r.data \in Payloads =>
                      /\ last'.data = r.data
                      /\ last'.data = Payload(code)
                      /\ last'.message = "none"
                /\ r.data = Null =>
                      /\ last'.status = 400
                      /\ last'.data = Null
                      /\ last'.message \in {"restarted", "invalid"}]_vars

C19_Witness ==
    /\ Answered
    /\ last.status = 200 /\ last.message = "none"
    /\ last.data \in Payloads

(* C20: Failure message distinction.  A failed exchange is answered 400,   *)
(* with the 'server may have restarted' message exactly when the store     *)
(* holds no token at the moment of the failure, neither a pending entry    *)
(* nor a consumed entry inside its retention, and with the plain message   *)
(* whenever the store still holds some token.                              *)
C20_FailureMessageDistinction ==
    [][\A code \in Codes :
        (Redeem(code) /\ last'.status # 200) =>
            /\ last'.status = 400
            /\ last'.message = "restarted" <=> ~HoldsSomeToken'
            /\ HoldsSomeToken' => last'.message = "invalid"]_vars

(* An exchange that failed with the 'restarted' message while a consumed   *)
(* entry was inside its retention                                          *)
C20_Witness ==
    /\ Answered
    /\ last.status = 400 /\ last.message = "restarted"
    /\ \E t \in DOMAIN consumedTokens :
          last.at - consumedTokens[t].consumedAt < CONSUMED_TOKEN_RETENTION

----------------------------------------------------------------------------
(* Properties of the user table *)

(* C21: Account verification is one-way and idempotent.  No operation of   *)
(* UserRepository on an existing account clears an emailVerified that is   *)
(* set, and markEmailVerified on an account that is already verified       *)
(* succeeds and leaves it verified, its role and password as they were.    *)
C21_VerificationOneWay ==
    [][\A u \in UserIds :
        /\ (MapHas(users, u) /\ users[u].emailVerified # Null) =>
              /\ MapHas(users', u)
              /\ users'[u].emailVerified # Null
        /\ (MarkEmailVerified(u) /\ users[u].emailVerified # Null) =>
              /\ users'[u].emailVerified \in {Verified, Reverified}
              /\ users'[u].role = users[u].role
              /\ users'[u].password = users[u].password
        /\ (MapHas(users, u) /\ users[u].emailVerified # Null) =>
              ENABLED MarkEmailVerified(u)]_vars

C21_Witness ==
    \E u \in UserIds :
        /\ MapHas(users, u)
        /\ users[u].emailVerified = Reverified
        /\ users[u].role = "VENDOR"
        /\ users[u].password = "h2"

(* C22: Browsing stays open.  Requests to GET /discussions/business/:id,   *)
(* GET /discussions/:id and GET /favorites/business/:id/count resolve to   *)
(* routes whose only handler is the controller: neither the                *)
(* authentication middleware nor the gate runs, whatever credential the    *)
(* caller presents and whatever the account's verification, and the        *)
(* request is never answered 401 or 403.                                   *)
C22_BrowsingStaysOpen ==
    /\ Resolve("discussions", "GET", <<"business", "x1">>).chain
          = <<"getBusinessDiscussions">>
    /\ Resolve("discussions", "GET", <<"x1">>).chain = <<"getDiscussionById">>
    /\ Resolve("favorites", "GET", <<"business", "x1", "count">>).chain
          = <<"getBusinessFavoriteCount">>
    /\ \A r \in PipeReqs :
          reqs[r].route \in
              {Endpoint("discussions", "GET", <<"business", Param>>),
               Endpoint("discussions", "GET", <<Param>>),
               Endpoint("favorites", "GET", <<"business", Param, "count">>)} =>
              /\ reqs[r].pc \in Controllers \cup {"done"}
              /\ \A i \in 1..Len(reqs[r].trace) :
                    reqs[r].trace[i] \in Controllers
              /\ reqs[r].lookups = 0
              /\ reqs[r].status \in {0, 200}
              /\ reqs[r].pc = "done" =>
                    /\ Len(reqs[r].trace) = 1
                    /\ reqs[r].status = 200

C22_Witness ==
    \E r \in PipeReqs :
        /\ reqs[r].route = Endpoint("favorites", "GET", <<"business", Param, "count">>)
        /\ reqs[r].cred = [kind |-> "missing"]
        /\ reqs[r].pc = "done" /\ reqs[r].status = 200
        /\ reqs[r].trace = <<"getBusinessFavoriteCount">>

----------------------------------------------------------------------------
(* Further properties of the token store *)

(* C23: Purge timers are idempotent.  The expiry timer of a token that has *)
(* already left the pending store changes neither map, so a consumed entry *)
(* inside its retention is still served afterwards; no expiry timer ever   *)
(* touches the consumed cache or another token's entry; and the retention  *)
(* timer of an entry already removed from the cache changes neither map.   *)
C23_PurgeTimersIdempotent ==
    [][\A tm \in timers :
        /\ ExpiryTimer(tm) =>
              /\ consumedTokens' = consumedTokens
              /\ ~MapHas(tempTokenStore, tm.token) =>
                    tempTokenStore' = tempTokenStore
              /\ \A t \in DOMAIN tempTokenStore \ {tm.token} :
                    /\ MapHas(tempTokenStore', t)
                    /\ tempTokenStore'[t] = tempTokenStore[t]
              /\ (/\ MapHas(consumedTokens, tm.token)
                  /\ now - consumedTokens[tm.token].consumedAt
                        < CONSUMED_TOKEN_RETENTION) =>
                    /\ exchangeTempToken(tm.token)'.path = "consumed"
                    /\ exchangeTempToken(tm.token)'.data = Payload(tm.token)
        /\ (PurgeTimer(tm) /\ ~MapHas(consumedTokens, tm.token)) =>
              /\ consumedTokens' = consumedTokens
              /\ tempTokenStore' = tempTokenStore]_vars

(* The expiry timer of a redeemed token has fired while the consumed entry *)
(* was inside its retention, and the entry is still there                  *)
C23_Witness ==
    \E t \in Tokens :
        /\ t \in used \ lost
        /\ MapHas(consumedTokens, t)
        /\ now - consumedTokens[t].consumedAt < CONSUMED_TOKEN_RETENTION
        /\ now >= ExpiresAt(t)
        /\ ~\E tm \in timers : tm.kind = "expiry" /\ tm.token = t

(* C24: Empty payload is treated as not found.  When a pending, unexpired  *)
(* token issued with a falsy payload is presented to the exchange          *)
(* endpoint, the store redeems it (it leaves the pending store and enters  *)
(* the consumed cache), yet the endpoint answers 400 with no data and with *)
(* the message it gives for a code that is not stored.                     *)
C24_EmptyPayloadNotFound ==
    [][\A code \in Codes :
        (/\ Redeem(code) /\ IsFresh(code)
         /\ tempTokenStore[code].data = Null) =>
            /\ last'.path = "pending"
            /\ ~MapHas(tempTokenStore', code)
            /\ MapHas(consumedTokens', code)
            /\ last'.status = 400
            /\ last'.data = Null
            /\ last'.message = IF DOMAIN tempTokenStore' = {}
                               THEN "restarted" ELSE "invalid"]_vars

C24_Witness ==
    /\ Answered
    /\ last.fresh /\ last.path = "pending"
    /\ last.status = 400
    /\ MapHas(consumedTokens, last.code)
    /\ consumedTokens[last.code].data = Null

(* C25: PENDING and CONSUMED are exclusive.  With token strings never      *)
(* returned twice, after every operation no token is in both the pending   *)
(* store and the consumed cache, and a token that was issued and is no     *)
(* longer in the pending store is never in it again.                       *)
C25_PendingConsumedExclusive ==
    [][\A t \in Tokens :
        /\ ~(MapHas(tempTokenStore', t) /\ MapHas(consumedTokens', t))
        /\ (t \in used /\ ~MapHas(tempTokenStore, t)) =>
              ~MapHas(tempTokenStore', t)
        /\ (t \notin used) =>
              (~MapHas(tempTokenStore, t) /\ ~MapHas(consumedTokens, t))]_vars

C25_Witness ==
    /\ MapHas(consumedTokens, "t1") /\ ~MapHas(tempTokenStore, "t1")
    /\ MapHas(tempTokenStore, "t2") /\ ~MapHas(consumedTokens, "t2")

(* C26: Payload binding.  Over any interleaving of issue and redeem calls  *)
(* for several tokens, a redemption that returns a payload returns the one *)
(* passed to the generateTempToken call that returned that token, and an   *)
(* issue or a redemption leaves the entries of every other token, in both  *)
(* maps, as they were.                                                     *)
C26_PayloadBinding ==
    [][/\ \A code \in Codes :
            Redeem(code) =>
                /\ last'.data # Null =>
                      /\ code \in used
                      /\ last'.data = issued[code].data
                /\ \A t \in Tokens \ {code} :
                      /\ MapHas(tempTokenStore', t) <=> MapHas(tempTokenStore, t)
                      /\ MapHas(tempTokenStore, t) =>
                            tempTokenStore'[t] = tempTokenStore[t]
                      /\ MapHas(consumedTokens', t) <=> MapHas(consumedTokens, t)
                      /\ MapHas(consumedTokens, t) =>
                            consumedTokens'[t] = consumedTokens[t]
       /\ \A data \in Payloads :
            IssueToken(data) =>
                /\ \E t \in Tokens \ used :
                      /\ used' = used \cup {t}
                      /\ tempTokenStore'[t].data = data
                      /\ issued'[t].data = data
                /\ consumedTokens' = consumedTokens
                /\ \A t \in DOMAIN tempTokenStore :
                      tempTokenStore'[t] = tempTokenStore[t]
       /\ \A t \in DOMAIN tempTokenStore' : tempTokenStore'[t].data = issued'[t].data
       /\ \A t \in DOMAIN consumedTokens' : consumedTokens'[t].data = issued'[t].data
      ]_vars

C26_Witness ==
    /\ Answered
    /\ used = Tokens
    /\ issued["t1"].data # issued["t2"].data
    /\ last.code = "t2" /\ last.data = issued["t2"].data
    /\ MapHas(consumedTokens, "t1") /\ MapHas(consumedTokens, "t2")

----------------------------------------------------------------------------
(* Further properties of the gate *)

(* C27: The gate produces exactly one outcome per request.  While execute  *)
(* runs it has neither answered nor called next(); when it has ended it    *)
(* has either sent exactly one response, with status 401, 404, 403 or 500, *)
(* or called next() exactly once, never both and never neither.            *)
C27_GateExactlyOneOutcome ==
    \A r \in Reqs :
        /\ reqs[r].sent <= 1 /\ reqs[r].nexts <= 1
        /\ ~reqs[r].escaped
        /\ reqs[r].pc \in {"new", "gate", "lookup", "resume", "done"}
        /\ reqs[r].pc # "done" =>
              /\ reqs[r].sent = 0 /\ reqs[r].nexts = 0
              /\ reqs[r].status = 0
        /\ reqs[r].pc = "done" =>
              \/ /\ reqs[r].sent = 1 /\ reqs[r].nexts = 0
                 /\ reqs[r].status \in {401, 404, 403, 500}
              \/ /\ reqs[r].sent = 0 /\ reqs[r].nexts = 1
                 /\ reqs[r].status = 0

C27_Witness ==
    \E r1, r2 \in Reqs :
        /\ reqs[r1].pc = "done" /\ reqs[r1].sent = 1 /\ reqs[r1].status = 500
        /\ reqs[r2].pc = "done" /\ reqs[r2].sent = 0 /\ reqs[r2].nexts = 1

----------------------------------------------------------------------------
(* Business listings and their verification: POST /businesses,             *)
(* POST /businesses/:id/verification, and the admin's approve and reject.  *)
(* A handler is one execution in calls; each step runs up to the next      *)
(* await, so the database answers one query per step.                      *)

MaxBusinesses == 2               \* Business rows created in one behaviour
MaxVerifications == 2            \* Verification rows created in one behaviour
VerificationStatuses == {"PENDING", "APPROVED", "REJECTED"}
(* authReq.user?.role: the role the credential carries, or none *)
CredentialRoles == Roles \cup {Undefined}
AdminIds == {"u2"}               \* the accounts that call the admin routes

Running(c) == calls[c].pc \notin {"idle", "done"}
(* rows the executions in flight may still insert *)
Creating == Cardinality({c \in Calls : /\ Running(c)
                                       /\ calls[c].op = "createBusiness"
                                       /\ calls[c].pc \notin
                                            {"findBusiness", "findByBusinessId",
                                             "createBusinessVerification"}})
Submitting == Cardinality({c \in Calls :
                              /\ Running(c)
                              /\ calls[c].op \in {"createBusiness",
                                                  "submitVerification"}})

BeginCall(op, pc, userId, userRole, id) ==
    [op |-> op, pc |-> pc, userId |-> userId, userRole |-> userRole,
     id |-> id, status |-> 0]
(* res.status(status).json(..): the handler has answered, and its locals   *)
(* are gone                                                                *)
EndCall(q, status) ==
    [op |-> q.op, pc |-> "done", userId |-> Null, userRole |-> Undefined,
     id |-> 0, status |-> status]

(* UserRepository.getUserRole: user?.role || null *)
getUserRole(table, userId) ==
    IF MapHas(table, userId) THEN table[userId].role ELSE Null

(* BusinessRepository.countByOwnerId *)
countByOwnerId(table, ownerId) ==
    Cardinality({i \in 1..Len(table) : table[i].ownerId = ownerId})

(* VerificationRepository.findByBusinessId: the ids of the business's rows *)
findByBusinessId(table, businessId) ==
    {i \in 1..Len(table) : table[i].businessId = businessId}

(* existingVerifications.find(v => v.status === 'PENDING') *)
pendingVerification(table, businessId) ==
    {i \in findByBusinessId(table, businessId) : table[i].status = "PENDING"}

(* the branch on actualUserRole === 'CUSTOMER' *)
AfterRole(actualUserRole) ==
    IF actualUserRole = "CUSTOMER" THEN "countByOwnerId" ELSE "create"

(* BusinessController.createBusiness and BusinessService.createBusiness up *)
(* to the first query, for a request whose body passes the validations     *)
(* and carries no isVerified.  The caller is signed in to an account.      *)
CreateBusinessCall(c, userId, userRole) ==
    /\ ~Running(c)
    /\ MapHas(users, userId)
    /\ Len(businesses) + Creating < MaxBusinesses
    /\ Len(verifications) + Submitting < MaxVerifications
    /\ calls' = [calls EXCEPT ![c] =
                   LET q == BeginCall("createBusiness", "start", userId,
                                      userRole, 0)
                   IN  IF userRole = "ADMIN" THEN EndCall(q, 403)
                       ELSE IF userRole = Undefined
                       THEN [q EXCEPT !.pc = "getUserRole"]
                       ELSE [q EXCEPT !.pc = AfterRole(userRole)]]
    /\ UNCHANGED <<businesses, verifications, users, everUser, reqs,
                   tokenVars, redirect>>

(* userRole || await userRepository.getUserRole(data.ownerId) *)
GetUserRole(c) ==
    /\ calls[c].pc = "getUserRole"
    /\ calls' = [calls EXCEPT ![c].pc =
                   AfterRole(getUserRole(users, calls[c].userId))]
    /\ UNCHANGED <<businesses, verifications, users, everUser, reqs,
                   tokenVars, redirect>>

(* businessCount === 0 decides whether updateRole is called *)
CountByOwnerId(c) ==
    /\ calls[c].pc = "countByOwnerId"
    /\ calls' = [calls EXCEPT ![c].pc =
                   IF countByOwnerId(businesses, calls[c].userId) = 0
                   THEN "updateRole" ELSE "create"]
    /\ UNCHANGED <<businesses, verifications, users, everUser, reqs,
                   tokenVars, redirect>>

(* userRepository.updateRole(data.ownerId, 'VENDOR'); the update of a row  *)
(* that does not exist raises, and the controller answers 500              *)
UpgradeToVendor(c) ==
    /\ calls[c].pc = "updateRole"
    /\ IF MapHas(users, calls[c].userId)
       THEN /\ users' = [users EXCEPT ![calls[c].userId].role = "VENDOR"]
            /\ calls' = [calls EXCEPT ![c].pc = "create"]
       ELSE /\ calls' = [calls EXCEPT ![c] = EndCall(@, 500)]
            /\ UNCHANGED users
    /\ UNCHANGED <<businesses, verifications, everUser, reqs,
                   tokenVars, redirect>>

(* businessRepository.create(data); the controller then submits the        *)
(* verification document for the new row.  ownerId references User.        *)
CreateBusinessRow(c) ==
    /\ calls[c].pc = "create"
    /\ IF MapHas(users, calls[c].userId)
       THEN /\ businesses' = Append(businesses,
                                    [ownerId |-> calls[c].userId,
                                     isVerified |-> FALSE])
            /\ calls' = [calls EXCEPT ![c].pc = "findBusiness",
                                      ![c].id = Len(businesses) + 1]
       ELSE /\ calls' = [calls EXCEPT ![c] = EndCall(@, 500)]
            /\ UNCHANGED businesses
    /\ UNCHANGED <<verifications, users, everUser, reqs, tokenVars, redirect>>

(* BusinessController.submitVerification, for a numeric id and a document *)
SubmitVerificationCall(c, businessId, userId) ==
    /\ ~Running(c)
    /\ MapHas(users, userId)
    /\ Len(verifications) + Submitting < MaxVerifications
    /\ calls' = [calls EXCEPT ![c] =
                   BeginCall("submitVerification", "findBusiness", userId,
                             Undefined, businessId)]
    /\ UNCHANGED <<businesses, verifications, users, everUser, reqs,
                   tokenVars, redirect>>

(* What the caller of submitVerification answers: createBusiness answers   *)
(* 201 whatever the submission returned                                    *)
SubmitAnswer(q, status) ==
    EndCall(q, IF q.op = "createBusiness" THEN 201 ELSE status)

(* submitVerification: the business must exist and belong to the caller *)
FindBusiness(c) ==
    /\ calls[c].pc = "findBusiness"
    /\ calls' = [calls EXCEPT ![c] =
                   IF calls[c].id \notin 1..Len(businesses)
                   THEN SubmitAnswer(@, 404)
                   ELSE IF businesses[calls[c].id].ownerId # calls[c].userId
                   THEN SubmitAnswer(@, 403)
                   ELSE [@ EXCEPT !.pc = "findByBusinessId"]]
    /\ UNCHANGED <<businesses, verifications, users, everUser, reqs,
                   tokenVars, redirect>>

(* submitVerification: refused when a PENDING row is read *)
FindByBusinessId(c) ==
    /\ calls[c].pc = "findByBusinessId"
    /\ calls' = [calls EXCEPT ![c] =
                   IF pendingVerification(verifications, calls[c].id) # {}
                   THEN SubmitAnswer(@, 400)
                   ELSE [@ EXCEPT !.pc = "createBusinessVerification"]]
    /\ UNCHANGED <<businesses, verifications, users, everUser, reqs,
                   tokenVars, redirect>>

(* VerificationRepository.createBusinessVerification *)
CreateBusinessVerification(c) ==
    /\ calls[c].pc = "createBusinessVerification"
    /\ verifications' = Append(verifications,
                               [businessId |-> calls[c].id,
                                status |-> "PENDING", adminId |-> Null])
    /\ calls' = [calls EXCEPT ![c] = SubmitAnswer(@, 201)]
    /\ UNCHANGED <<businesses, users, everUser, reqs, tokenVars, redirect>>

(* AdminController.approveVerification and rejectVerification, for a       *)
(* numeric id, called by an account the admin router let through           *)
DecideVerificationCall(c, op, verificationId, adminId) ==
    /\ ~Running(c)
    /\ MapHas(users, adminId)
    /\ calls' = [calls EXCEPT ![c] =
                   BeginCall(op, "findById", adminId, "ADMIN",
                             verificationId)]
    /\ UNCHANGED <<businesses, verifications, users, everUser, reqs,
                   tokenVars, redirect>>

(* verificationRepository.findById: 'Verification not found' when absent *)
FindVerification(c) ==
    /\ calls[c].pc = "findById"
    /\ calls' = [calls EXCEPT ![c] =
                   IF calls[c].id \notin 1..Len(verifications)
                   THEN EndCall(@, 404)
                   ELSE [@ EXCEPT !.pc = "updateStatus"]]
    /\ UNCHANGED <<businesses, verifications, users, everUser, reqs,
                   tokenVars, redirect>>

(* the status approveVerification and rejectVerification pass to updateStatus *)
StatusOf(op) ==
    IF op = "approveVerification" THEN "APPROVED" ELSE "REJECTED"

(* VerificationRepository.updateStatus; adminId references User *)
UpdateStatus(c) ==
    /\ calls[c].pc = "updateStatus"
    /\ IF MapHas(users, calls[c].userId)
       THEN /\ verifications' =
                  [verifications EXCEPT
                     ![calls[c].id] =
                        [@ EXCEPT !.status = StatusOf(calls[c].op),
                                  !.adminId = calls[c].userId]]
            /\ calls' = [calls EXCEPT ![c] =
                           IF calls[c].op = "approveVerification"
                           THEN [@ EXCEPT !.pc = "updateBusiness"]
                           ELSE EndCall(@, 200)]
       ELSE /\ calls' = [calls EXCEPT ![c] = EndCall(@, 500)]
            /\ UNCHANGED verifications
    /\ UNCHANGED <<businesses, users, everUser, reqs, tokenVars, redirect>>

(* approveVerification: businessRepository.update(id, {isVerified: true}) *)
UpdateBusiness(c) ==
    /\ calls[c].pc = "updateBusiness"
    /\ businesses' =
          [businesses EXCEPT
             ![verifications[calls[c].id].businessId].isVerified = TRUE]
    /\ calls' = [calls EXCEPT ![c] = EndCall(@, 200)]
    /\ UNCHANGED <<verifications, users, everUser, reqs, tokenVars, redirect>>

(* The steps of createBusiness, and of the submission it ends with *)
CreateBusinessSteps ==
    \/ \E c \in Calls : GetUserRole(c)
    \/ \E c \in Calls : CountByOwnerId(c)
    \/ \E c \in Calls : UpgradeToVendor(c)
    \/ \E c \in Calls : CreateBusinessRow(c)
    \/ \E c \in Calls : FindBusiness(c)
    \/ \E c \in Calls : FindByBusinessId(c)
    \/ \E c \in Calls : CreateBusinessVerification(c)

(* Owners create businesses and submit documents, admins decide *)
VerifyNext ==
    \/ \E c \in Calls, userId \in UserIds :
            CreateBusinessCall(c, userId, Undefined)
    \/ CreateBusinessSteps
    \/ \E c \in Calls, businessId \in 1..MaxBusinesses, userId \in UserIds :
            SubmitVerificationCall(c, businessId, userId)
    \/ \E c \in Calls, op \in {"approveVerification", "rejectVerification"},
          verificationId \in 1..MaxVerifications, adminId \in AdminIds :
            DecideVerificationCall(c, op, verificationId, adminId)
    \/ \E c \in Calls : FindVerification(c)
    \/ \E c \in Calls : UpdateStatus(c)
    \/ \E c \in Calls : UpdateBusiness(c)
    \/ \E u \in UserIds : CreateUser(u, Verified)

VerifySpec == Init /\ [][VerifyNext]_vars

(* Users create businesses with credentials of any role, while an admin    *)
(* changes stored roles                                                    *)
RoleNext ==
    \/ \E c \in Calls, userId \in UserIds, userRole \in CredentialRoles :
            CreateBusinessCall(c, userId, userRole)
    \/ CreateBusinessSteps
    \/ \E u \in UserIds : CreateUser(u, Verified)
    \/ \E u \in UserIds, role \in Roles : UpdateRole(u, role)

RoleSpec == Init /\ [][RoleNext]_vars

----------------------------------------------------------------------------
(* Properties of the business listings and their verification *)

(* C28: At most one pending verification per business.  After any          *)
(* interleaving of submitVerification calls by the owner of a business,    *)
(* two concurrent calls that both read the existing verifications before   *)
(* either creates one included, the business has at most one verification  *)
(* row with status PENDING.                                                *)
C28_AtMostOnePending ==
    \A b \in 1..MaxBusinesses :
        Cardinality(pendingVerification(verifications, b)) <= 1

(* Two submissions for one business were both answered 201 and both rows   *)
(* are PENDING                                                             *)
C28_Witness ==
    /\ \A c \in Calls : calls[c].pc = "done" /\ calls[c].status = 201
    /\ \E c \in Calls : calls[c].op = "submitVerification"
    /\ \E b \in 1..Len(businesses) :
          Cardinality(pendingVerification(verifications, b)) = 2

(* C29: Role upgrade on first business.  createBusiness changes a user's   *)
(* stored role only from CUSTOMER to VENDOR and only when that user owns   *)
(* no business yet; it never changes the stored role of a user whose       *)
(* stored role is VENDOR or ADMIN, whatever role the credential carries.   *)
C29_UpgradeOnlyCustomer ==
    [][\A c \in Calls :
        UpgradeToVendor(c) =>
            \A u \in DOMAIN users :
                users'[u].role # users[u].role =>
                    /\ users[u].role = "CUSTOMER"
                    /\ users'[u].role = "VENDOR"
                    /\ countByOwnerId(businesses, u) = 0]_vars

(* createBusiness is about to write VENDOR over a stored ADMIN: the        *)
(* request carried the role CUSTOMER                                       *)
C29_Witness ==
    \E c \in Calls :
        /\ calls[c].pc = "updateRole"
        /\ calls[c].userRole = "CUSTOMER"
        /\ MapHas(users, calls[c].userId)
        /\ users[calls[c].userId].role = "ADMIN"

(* C30: Verification decisions are final.  approveVerification and         *)
(* rejectVerification change the status of a verification only when it is  *)
(* PENDING: a verification that is APPROVED or REJECTED never changes      *)
(* status again.                                                           *)
C30_DecisionsFinal ==
    [][\A i \in 1..Len(verifications) :
          verifications[i].status \in {"APPROVED", "REJECTED"} =>
              verifications'[i].status = verifications[i].status]_vars

(* A verification approved first and rejected afterwards: its business     *)
(* is still marked verified                                                *)
C30_Witness ==
    /\ \A c \in Calls : ~Running(c)
    /\ \E i \in 1..Len(verifications) :
          /\ verifications[i].status = "REJECTED"
          /\ businesses[verifications[i].businessId].isVerified

====
